---------------------------- MODULE Spec2Model ----------------------------
(***************************************************************************)
(* HISPE PULSE attendance client (MarcacionApp) and its service worker     *)
(* (static/sw.js).                                                         *)
(*                                                                         *)
(*   SpecEval    updateMarcationCards applied to arbitrary attendance      *)
(*               records (the eligibility evaluation, sections 4.1 / 8).   *)
(*   SpecRouter  the service worker alone: one fetch event at a time,      *)
(*               classified and answered by its strategy (section 4.3).    *)
(*   Spec        the page with the service worker: loads, refreshes, scan  *)
(*               sessions, timers and submissions interleaved (4.2).       *)
(*   SpecLifecycle  versions of the service worker installed and activated *)
(*               one after another while the active one answers requests. *)
(***************************************************************************)
EXTENDS Integers, Sequences, FiniteSets, TLC

(***************************************************************************)
(* Bounds                                                                  *)
(***************************************************************************)
\* number of distinct time strings a field of an attendance record may hold
NumTimes == 2
\* background refreshes of the service worker in flight at once
MaxBg == 1
\* background refreshes in flight at once where their overlap is studied
MaxOverlap == 2
\* GET /api/attendance/today requests of the page in flight at once
MaxLoads == 2
\* scan sessions (scanner instance and timer) alive at once
MaxSessions == 2
\* 800 ms timers of the scan callback pending at once
MaxTimers == 2
\* POSTs of the page in flight at once
MaxPosts == 2
\* versions of the service worker script installed one after another
MaxVersion == 3

(***************************************************************************)
(* Attendance records: the JSON of GET /api/attendance/today               *)
(***************************************************************************)
\* JSON null or an absent key (both falsy in the client's tests)
Null == "null"
\* the empty string (falsy as well)
Empty == ""

TimeStrings == <<"08:00", "12:00", "13:00", "17:00">>

Times == { TimeStrings[i] : i \in 1..NumTimes }

FieldValues == {Null, Empty} \cup Times

\* data-type of the four cards
Types == {"Ingreso", "Inicio de Refrigerio", "Salida de Refrigerio", "Salida"}

Records == [horaentrada : FieldValues, horaRefrigerioInicio : FieldValues,
            horaRefrigerioFin : FieldValues, horasalida : FieldValues]

EmptyRecord == [horaentrada |-> Null, horaRefrigerioInicio |-> Null,
                horaRefrigerioFin |-> Null, horasalida |-> Null]

\* JavaScript truthiness of a field value: null, undefined and "" are falsy
Truthy(v) == v \notin {Null, Empty}

\* the field of the record a punch type writes and its card displays
FieldOf(type, a) ==
    CASE type = "Ingreso"              -> a.horaentrada
      [] type = "Inicio de Refrigerio" -> a.horaRefrigerioInicio
      [] type = "Salida de Refrigerio" -> a.horaRefrigerioFin
      [] type = "Salida"               -> a.horasalida

(***************************************************************************)
(* Cards: the part of the DOM updateMarcationCards writes                  *)
(***************************************************************************)
StatusClasses == {"available", "completed", "disabled"}

\* a card as the page template ships it: no status class yet
InitialCard == [classes |-> {"marcation-card"}, time |-> "", status |-> ""]

InitialCards == [t \in Types |-> InitialCard]

\* a plausible slip: the status classes of the last evaluation are not removed
SetCard_NoReset(card, cls, time, status) ==
    [classes |-> card.classes \cup {cls}, time |-> time, status |-> status]

\* classList.remove('available','completed','disabled') then classList.add(cls),
\* timeElement.textContent = time, statusElement.textContent = status
SetCard(card, cls, time, status) ==
    [classes |-> (card.classes \ StatusClasses) \cup {cls},
     time |-> time, status |-> status]

\* case 'Ingreso'
CardIngreso(card, a) ==
    IF Truthy(a.horaentrada)
    THEN SetCard(card, "completed", a.horaentrada, "Completado")
    ELSE SetCard(card, "available", "", "Toca para marcar")

\* a plausible slip: the blocked branch writes one text for every reason
CardInicioRefrigerio_OneReason(card, a) ==
    IF Truthy(a.horaRefrigerioInicio)
    THEN SetCard(card, "completed", a.horaRefrigerioInicio, "Completado")
    ELSE IF Truthy(a.horaentrada) /\ ~Truthy(a.horasalida)
    THEN SetCard(card, "available", "", "Toca para marcar")
    ELSE SetCard(card, "disabled", "", "No disponible")

\* case 'Inicio de Refrigerio'
CardInicioRefrigerio(card, a) ==
    IF Truthy(a.horaRefrigerioInicio)
    THEN SetCard(card, "completed", a.horaRefrigerioInicio, "Completado")
    ELSE IF Truthy(a.horaentrada) /\ ~Truthy(a.horasalida)
    THEN SetCard(card, "available", "", "Toca para marcar")
    ELSE SetCard(card, "disabled", "",
                 IF Truthy(a.horaentrada) THEN "No disponible"
                                          ELSE "Requiere ingreso")

\* a plausible slip: the available branch also asks for the entry
CardSalidaRefrigerio_NeedsEntry(card, a) ==
    IF Truthy(a.horaRefrigerioFin)
    THEN SetCard(card, "completed", a.horaRefrigerioFin, "Completado")
    ELSE IF Truthy(a.horaentrada) /\ Truthy(a.horaRefrigerioInicio)
            /\ ~Truthy(a.horasalida)
    THEN SetCard(card, "available", "", "Toca para marcar")
    ELSE SetCard(card, "disabled", "",
                 IF ~Truthy(a.horaentrada) THEN "Requiere ingreso"
                 ELSE IF ~Truthy(a.horaRefrigerioInicio)
                      THEN "Requiere inicio refrigerio"
                      ELSE "No disponible")

\* case 'Salida de Refrigerio'
CardSalidaRefrigerio(card, a) ==
    IF Truthy(a.horaRefrigerioFin)
    THEN SetCard(card, "completed", a.horaRefrigerioFin, "Completado")
    ELSE IF Truthy(a.horaRefrigerioInicio) /\ ~Truthy(a.horasalida)
    THEN SetCard(card, "available", "", "Toca para marcar")
    ELSE SetCard(card, "disabled", "",
                 IF ~Truthy(a.horaentrada) THEN "Requiere ingreso"
                 ELSE IF ~Truthy(a.horaRefrigerioInicio)
                      THEN "Requiere inicio refrigerio"
                      ELSE "No disponible")

\* a plausible slip in the blocked branch: the break test before the entry test
CardSalida_BreakFirst(card, a) ==
    IF Truthy(a.horasalida)
    THEN SetCard(card, "completed", a.horasalida, "Completado")
    ELSE IF Truthy(a.horaentrada)
            /\ (~Truthy(a.horaRefrigerioInicio) \/ Truthy(a.horaRefrigerioFin))
    THEN SetCard(card, "available", "", "Toca para marcar")
    ELSE SetCard(card, "disabled", "",
                 IF Truthy(a.horaRefrigerioInicio) /\ ~Truthy(a.horaRefrigerioFin)
                 THEN "Termine refrigerio primero"
                 ELSE IF ~Truthy(a.horaentrada) THEN "Requiere ingreso"
                      ELSE "No disponible")

\* a plausible slip in the available branch: the break must have ended
CardSalida_NeedsBreakEnd(card, a) ==
    IF Truthy(a.horasalida)
    THEN SetCard(card, "completed", a.horasalida, "Completado")
    ELSE IF Truthy(a.horaentrada) /\ Truthy(a.horaRefrigerioFin)
    THEN SetCard(card, "available", "", "Toca para marcar")
    ELSE SetCard(card, "disabled", "",
                 IF ~Truthy(a.horaentrada) THEN "Requiere ingreso"
                 ELSE IF Truthy(a.horaRefrigerioInicio) /\ ~Truthy(a.horaRefrigerioFin)
                      THEN "Termine refrigerio primero"
                      ELSE "No disponible")

\* a plausible slip in the available branch: the break is not looked at
CardSalida_NoBreakTest(card, a) ==
    IF Truthy(a.horasalida)
    THEN SetCard(card, "completed", a.horasalida, "Completado")
    ELSE IF Truthy(a.horaentrada)
    THEN SetCard(card, "available", "", "Toca para marcar")
    ELSE SetCard(card, "disabled", "", "Requiere ingreso")

\* case 'Salida'
CardSalida(card, a) ==
    IF Truthy(a.horasalida)
    THEN SetCard(card, "completed", a.horasalida, "Completado")
    ELSE IF Truthy(a.horaentrada)
            /\ (~Truthy(a.horaRefrigerioInicio) \/ Truthy(a.horaRefrigerioFin))
    THEN SetCard(card, "available", "", "Toca para marcar")
    ELSE SetCard(card, "disabled", "",
                 IF ~Truthy(a.horaentrada) THEN "Requiere ingreso"
                 ELSE IF Truthy(a.horaRefrigerioInicio) /\ ~Truthy(a.horaRefrigerioFin)
                      THEN "Termine refrigerio primero"
                      ELSE "No disponible")

\* what response.json() may yield: a JSON object (absent keys read as
\* undefined), JSON null, or another JSON value (number, string, boolean,
\* array), every property of which reads as undefined
JsonKinds == {"object", "null", "other"}

\* reading a property of null throws a TypeError
PropertyReadThrows(kind) == kind = "null"

\* updateMarcationCards(null): the callback of forEach throws at the first
\* card of the document, after classList.remove(...) and before any add
updateMarcationCardsThrown(old, first) ==
    [old EXCEPT ![first].classes = @ \ StatusClasses]

\* cards.forEach(card => switch (card.dataset.type) ...)
updateMarcationCards(old, a) ==
    [t \in Types |->
        CASE t = "Ingreso"              -> CardIngreso(old[t], a)
          [] t = "Inicio de Refrigerio" -> CardInicioRefrigerio(old[t], a)
          [] t = "Salida de Refrigerio" -> CardSalidaRefrigerio(old[t], a)
          [] t = "Salida"               -> CardSalida(old[t], a)]

(***************************************************************************)
(* Requests and responses seen by the service worker (static/sw.js)        *)
(***************************************************************************)
\* url.pathname as its segments; startsWith is modelled on whole segments
MarkPath      == <<"api", "attendance", "mark">>
TodayPath     == <<"api", "attendance", "today">>
DashboardPath == <<"dashboard">>
StylePath     == <<"static", "css", "style.css">>
\* a page of the origin that is not among the essential files
PagePath      == <<"page">>
\* the health endpoint checkConnection asks
HealthPath    == <<"api", "health">>

Paths == {MarkPath, TodayPath, DashboardPath, StylePath, PagePath, HealthPath}

\* const API_CACHE_PATTERNS
API_CACHE_PATTERNS == { <<"api", "user">>, TodayPath, HealthPath }

\* the ESSENTIAL_FILES that are among the modelled paths
ESSENTIAL_FILES == {DashboardPath, StylePath}

\* String.prototype.startsWith
StartsWith(path, prefix) ==
    /\ Len(prefix) <= Len(path)
    /\ SubSeq(path, 1, Len(prefix)) = prefix

\* a request: body is "none", "json" (a JSON text) or "text" (not JSON);
\* accept is the Accept header, Null when the request has none; the health
\* endpoint, which the listener treats as it treats the attendance API, is
\* asked in SpecInit
Requests ==
    { r \in [origin : {"same", "cross"}, method : {"GET", "POST"},
             path : Paths \ {HealthPath},
             mode : {"navigate", "cors"}, accept : {Null, "text/html", "*/*"},
             body : {"none", "json", "text"}] :
        \* the Request constructor refuses a body on GET
        /\ r.method = "GET" => r.body = "none"
        \* a cross-origin request never is a navigation of this page
        /\ r.origin = "cross" => r.mode = "cors" }

\* a value a strategy or the network yields: kind is "response", "failed"
\* (fetch rejected), "rejected" (the strategy's promise rejected), "undefined"
\* (resolved with no response), "miss" (caches.match found nothing) or "none";
\* body is the set of "key:value" members of a JSON body (or one text member);
\* rec is the attendance record a body of GET /api/attendance/today carries
Val(kind, status, body, rec) ==
    [kind |-> kind, status |-> status, body |-> body, rec |-> rec]

Response(status, body) == Val("response", status, body, EmptyRecord)
NetworkError == Val("failed", 0, {"TypeError: Failed to fetch"}, EmptyRecord)
Rejected(err) == Val("rejected", 0, {err}, EmptyRecord)
Undefined    == Val("undefined", 0, {}, EmptyRecord)
Miss         == Val("miss", 0, {}, EmptyRecord)
None         == Val("none", 0, {}, EmptyRecord)

IsResponse(v) == v.kind = "response"

\* Response.ok
Ok(v) == IsResponse(v) /\ v.status \in 200..299

\* what the network may answer to a forwarded request
NetBodies == { {"v1"}, {"v2"} }
ErrorBody == {"error:rejected by the server"}
NetOutcomes ==
    { Response(200, b) : b \in NetBodies }
      \cup { Response(st, ErrorBody) : st \in {400, 500} }
      \cup { NetworkError }

\* new Response('Recurso no disponible offline', { status: 503 })
CacheFirst503 == Response(503, {"text:Recurso no disponible offline"})

\* the 503 JSON of cacheFirstWithNetworkFallback
Api503 == Response(503, {"error:Funcionalidad no disponible offline"})

\* the 503 JSON of networkOnlyWithFallback
NetworkOnly503 ==
    Response(503, {"error:Sin conexion. La marcacion no se puede procesar offline.",
                   "offline:true"})

\* the 202 JSON of handleOfflineMarking
Offline202 ==
    Response(202, {"success:true",
                   "message:Marcacion guardada. Se enviara cuando haya conexion.",
                   "offline:true", "pending:true"})

\* the entry install stores under '/offline'
OfflinePage == Response(200, {"text:offline page"})

\* a body that is no JSON text: a page a gateway of the network answers with
HtmlBody == {"text:<html>"}

\* response.json() rejects unless the body is a JSON text
ResponseJsonThrows(v) ==
    v.body \in {HtmlBody, CacheFirst503.body, OfflinePage.body}

\* isNavigationRequest(request); "throw" when headers.get('accept') is null
isNavigationRequest(r) ==
    IF r.mode = "navigate" THEN "true"
    ELSE IF r.method # "GET" THEN "false"
    ELSE IF r.accept = Null THEN "throw"
    ELSE IF r.accept = "text/html" THEN "true" ELSE "false"

\* a plausible slip in the order of the tests: the navigation test before
\* the test of the API patterns
Classify_NavigationFirst(r) ==
    IF r.origin # "same" THEN "none"
    ELSE IF r.method = "GET" THEN
        IF StartsWith(r.path, MarkPath) THEN "networkOnlyWithFallback"
        ELSE IF isNavigationRequest(r) = "throw" THEN "throw"
        ELSE IF isNavigationRequest(r) = "true" THEN "networkFirstWithCacheFallback"
        ELSE IF \E pat \in API_CACHE_PATTERNS : StartsWith(r.path, pat)
             THEN "cacheFirstWithNetworkFallback"
        ELSE "cacheFirst"
    ELSE IF r.method = "POST" /\ StartsWith(r.path, MarkPath)
         THEN "handleOfflineMarking"
    ELSE "none"

\* the fetch listener: the strategy event.respondWith is given, "none" when
\* the listener returns without respondWith, "throw" when it throws
Classify(r) ==
    IF r.origin # "same" THEN "none"
    ELSE IF r.method = "GET" THEN
        IF StartsWith(r.path, MarkPath) THEN "networkOnlyWithFallback"
        ELSE IF \E pat \in API_CACHE_PATTERNS : StartsWith(r.path, pat)
             THEN "cacheFirstWithNetworkFallback"
        ELSE IF isNavigationRequest(r) = "throw" THEN "throw"
        ELSE IF isNavigationRequest(r) = "true" THEN "networkFirstWithCacheFallback"
        ELSE "cacheFirst"
    ELSE IF r.method = "POST" /\ StartsWith(r.path, MarkPath)
         THEN "handleOfflineMarking"
    ELSE "none"

Strategies == {"cacheFirst", "networkFirstWithCacheFallback",
               "cacheFirstWithNetworkFallback", "networkOnlyWithFallback",
               "handleOfflineMarking"}

\* fetch(request) hands the request's body to the network request: from then
\* on the body of `request` is used
BodyUsedByFetch(r) == r.body # "none"

\* request.clone() throws a TypeError when the body is used
CloneThrows(bodyUsed) == bodyUsed

\* requestClone.json() rejects unless the body is a JSON text
JsonThrows(r) == r.body # "json"

\* a plausible slip: the body is read from a clone taken before fetch, so the
\* catch block reaches its 202 answer
handleOfflineMarking_Queues(r, bodyUsed, net) ==
    IF Ok(net) THEN net ELSE Offline202

\* handleOfflineMarking once fetch(request) has settled with `net`
handleOfflineMarking(r, bodyUsed, net) ==
    IF Ok(net) THEN net
    ELSE \* throw new Error('Network failed'), or fetch rejected: the catch block
         IF CloneThrows(bodyUsed)
         THEN Rejected("TypeError: Request body is already used")
         ELSE IF JsonThrows(r)
         THEN Rejected("SyntaxError: Unexpected end of JSON input")
         ELSE Offline202

\* networkOnlyWithFallback once fetch(request) has settled
networkOnlyWithFallback(net) ==
    IF IsResponse(net) THEN net ELSE NetworkOnly503

\* cacheFirst after a miss, once fetch(request) has settled
cacheFirstOnNetwork(net) ==
    IF IsResponse(net) THEN net ELSE CacheFirst503

\* cacheFirstWithNetworkFallback after a miss, once fetch(request) has settled
cacheFirstWithNetworkFallbackOnNetwork(net) ==
    IF IsResponse(net) THEN net ELSE Api503

\* networkFirstWithCacheFallback, catch block: the stored response of the
\* request, else whatever caches.match('/offline') finds
networkFirstFallback(cached, offline) ==
    IF IsResponse(cached) THEN cached
    ELSE IF offline THEN OfflinePage ELSE Undefined

(***************************************************************************)
(* Versions of the service worker and the cache stores of the origin       *)
(***************************************************************************)
\* the identifiers a version of the script declares: the numbers stand for
\* the version suffixes of CACHE_NAME and of OFFLINE_CACHE
Versions == [cache : 1..MaxVersion, offline : 1..MaxVersion]

NoVersion == [cache |-> 0, offline |-> 0]
FirstVersion == [cache |-> 1, offline |-> 1]

\* const CACHE_NAME / const OFFLINE_CACHE of the script of version v
CACHE_NAME(v) == [kind |-> "hispe-pulse", v |-> v.cache]
OFFLINE_CACHE(v) == [kind |-> "hispe-offline", v |-> v.offline]

\* a store left by a generation of the application older than any version
LegacyStore == [kind |-> "legacy", v |-> 0]

\* the script that replaces version v: either identifier may be bumped
NextVersions(v) ==
    { n \in Versions : /\ n.cache \in {v.cache, v.cache + 1}
                       /\ n.offline \in {v.offline, v.offline + 1} }

\* a plausible slip in the filter of activate: only the stores of the
\* 'hispe-pulse' family are looked at
KeptByActivate_PulseOnly(name, v) ==
    name.kind # "hispe-pulse" \/ name = CACHE_NAME(v)

\* a plausible slip in the filter of activate: OFFLINE_CACHE is forgotten
KeptByActivate_CacheOnly(name, v) == name = CACHE_NAME(v)

\* activate keeps a store unless
\* cacheName !== CACHE_NAME && cacheName !== OFFLINE_CACHE
KeptByActivate(name, v) == name = CACHE_NAME(v) \/ name = OFFLINE_CACHE(v)

\* caches.open(CACHE_NAME) creates the store when it does not exist
Opened(st, v) == st \cup {CACHE_NAME(v)}

(***************************************************************************)
(* State                                                                   *)
(***************************************************************************)
VARIABLES
    attendance,   \* the record loadTodayAttendance parsed last
    parsed,       \* the kind of JSON value that record was read from
    evaluated,    \* TRUE once updateMarcationCards has rendered `attendance`
    thrown,       \* TRUE when the last updateMarcationCards call threw
    cards,        \* the four .marcation-card elements
    cache,        \* the store CACHE_NAME: path -> stored response, or Miss
    offlineEntry, \* TRUE while the store OFFLINE_CACHE holds '/offline'
    rq,           \* the fetch event the service worker is answering
    bg,           \* background refreshes in flight, in the order they started
    stores,       \* the names of the cache stores of the origin that exist
    version,      \* the identifiers of the active worker's script
    waiting,      \* the identifiers of the installed, waiting script
    replaced,     \* the identifiers of the script the active one replaced
    phase,        \* the active worker's state: "activating" or "activated"
    unhandled,    \* TRUE once a promise of the worker rejected with no handler
    serverRecord, \* today's record as the server holds it
    loads,        \* GET /api/attendance/today requests of the page in flight
    posts,        \* processQRCode calls past their guard, with their POST
    currentMarcationType,  \* this.currentMarcationType
    isProcessing,          \* this.isProcessing
    connectionStatus,      \* this.connectionStatus
    online,                \* TRUE while the network is reachable from the device
    qrScanner,    \* this.qrScanner: the id of the Html5Qrcode instance, 0 for null
    running,      \* the instances whose camera runs (start called, stop not)
    scanTimeout,  \* this.scanTimeout: the id of the timer, 0 for null
    armed,        \* the 120 s scan timers set and neither fired nor cleared
    procTimers,   \* the 800 ms timers set by the scan callback, not fired yet
    cancelled,    \* TRUE from a cancel or a scan timeout to the next selection
    statusMessage,\* the text and type showMessage wrote last
    ready         \* init() is past loadTodayAttendance: listeners, auto-refresh

evalVars   == <<attendance, parsed, evaluated, thrown, cards>>
routerVars == <<cache, offlineEntry, rq, bg>>
lifeVars   == <<stores, version, waiting, replaced, phase, unhandled>>
scanVars   == <<qrScanner, running, scanTimeout, armed, procTimers, cancelled>>
appVars    == <<serverRecord, loads, posts, currentMarcationType, isProcessing,
                connectionStatus, online, qrScanner, running, scanTimeout, armed,
                procTimers, cancelled, statusMessage, ready>>
nonRouterVars == <<attendance, parsed, evaluated, thrown, cards, serverRecord, loads, posts,
                   currentMarcationType, isProcessing, connectionStatus, online,
                   qrScanner, running, scanTimeout, armed, procTimers,
                   cancelled, statusMessage, ready>>

vars == <<attendance, parsed, evaluated, thrown, cards, cache, offlineEntry, rq, bg,
          stores, version, waiting, replaced, phase, unhandled,
          serverRecord, loads, posts, currentMarcationType, isProcessing,
          connectionStatus, online, qrScanner, running, scanTimeout, armed,
          procTimers, cancelled, statusMessage, ready>>

(***************************************************************************)
(* The service worker                                                      *)
(***************************************************************************)
NoRequest == [origin |-> "same", method |-> "GET", path |-> <<>>,
              mode |-> "cors", accept |-> Null, body |-> "none"]

Task(req, strategy, stage, bodyUsed, net, reply) ==
    [req |-> req, strategy |-> strategy, stage |-> stage,
     bodyUsed |-> bodyUsed, net |-> net, reply |-> reply]

IdleTask == Task(NoRequest, "none", "idle", FALSE, None, None)

\* the stores once install has run: cache.addAll(ESSENTIAL_FILES) and
\* cache.put('/offline', ...)
InstalledCache ==
    [p \in Paths |-> IF p \in ESSENTIAL_FILES THEN Response(200, {"v1"}) ELSE Miss]

\* the first version installed and activated, no request under way
RouterInit ==
    /\ cache = InstalledCache
    /\ offlineEntry = TRUE
    /\ rq = IdleTask
    /\ bg = <<>>
    /\ stores = {CACHE_NAME(FirstVersion), OFFLINE_CACHE(FirstVersion)}
    /\ version = FirstVersion
    /\ waiting = NoVersion
    /\ replaced = NoVersion
    /\ phase = "activated"
    /\ unhandled = FALSE

\* the strategies that start with caches.match(request)
MatchFirst == {"cacheFirst", "cacheFirstWithNetworkFallback"}

\* the strategies that store a 2xx response of the network
Storing == {"cacheFirst", "cacheFirstWithNetworkFallback",
            "networkFirstWithCacheFallback"}

\* self.addEventListener('fetch', ...): one request is classified and its
\* strategy started; without respondWith the browser fetches by itself
FetchEvent(r) ==
    /\ phase = "activated"
    /\ rq.stage = "idle"
    /\ UNCHANGED lifeVars
    /\ LET st == Classify(r) IN
         rq' = IF st \notin Strategies
               THEN Task(r, st, "default", FALSE, None, None)
               ELSE IF st \in MatchFirst
               THEN Task(r, st, "match", FALSE, None, None)
               ELSE Task(r, st, "fetch", BodyUsedByFetch(r), None, None)
    /\ UNCHANGED <<cache, offlineEntry, bg>>
    /\ UNCHANGED nonRouterVars

\* a request the listener left alone is answered by the network
BrowserDefault(net) ==
    /\ UNCHANGED lifeVars
    /\ rq.stage = "default"
    /\ rq' = [rq EXCEPT !.stage = "done", !.net = net, !.reply = net]
    /\ UNCHANGED <<cache, offlineEntry, bg>>
    /\ UNCHANGED nonRouterVars

\* a plausible slip: the plain cache-first strategy re-fetches as well
RefreshesInBackground_Always(strategy) == strategy \in MatchFirst

\* the strategy that starts fetch(request) without awaiting it when it has
\* found a stored response
RefreshesInBackground(strategy) == strategy = "cacheFirstWithNetworkFallback"

\* a background fetch(request) of `path` just started; overtaken records
\* that a refresh of the same path started after this one has stored its
\* response already
Refresh(path) == [path |-> path, overtaken |-> FALSE]

\* caches.match(request) finds a stored response: it is returned; the API
\* strategy also starts fetch(request) without awaiting it (at most `limit`
\* of them in flight)
CacheHitWithin(limit) ==
    /\ UNCHANGED lifeVars
    /\ rq.stage = "match"
    /\ IsResponse(cache[rq.req.path])
    /\ rq' = [rq EXCEPT !.stage = "done", !.reply = cache[rq.req.path]]
    /\ IF RefreshesInBackground(rq.strategy)
       THEN /\ Len(bg) < limit
            /\ bg' = Append(bg, Refresh(rq.req.path))
       ELSE bg' = bg
    /\ UNCHANGED <<cache, offlineEntry>>
    /\ UNCHANGED nonRouterVars

CacheHit == CacheHitWithin(MaxBg)

\* caches.match(request) finds nothing: await fetch(request)
CacheMiss ==
    /\ UNCHANGED lifeVars
    /\ rq.stage = "match"
    /\ ~IsResponse(cache[rq.req.path])
    /\ rq' = [rq EXCEPT !.stage = "fetch", !.bodyUsed = BodyUsedByFetch(rq.req)]
    /\ UNCHANGED <<cache, offlineEntry, bg>>
    /\ UNCHANGED nonRouterVars

\* what the strategy returns once its awaited fetch has settled with `net`
ReplyOnNetwork(t, net) ==
    CASE t.strategy = "cacheFirst" -> cacheFirstOnNetwork(net)
      [] t.strategy = "cacheFirstWithNetworkFallback" ->
             cacheFirstWithNetworkFallbackOnNetwork(net)
      [] t.strategy = "networkOnlyWithFallback" -> networkOnlyWithFallback(net)
      [] t.strategy = "handleOfflineMarking" ->
             handleOfflineMarking(t.req, t.bodyUsed, net)
      [] OTHER -> net

\* a plausible slip: the test of networkResponse.ok is left out
StoreIfOk_AnyResponse(c, t, net) ==
    IF t.strategy \in Storing /\ IsResponse(net)
    THEN [c EXCEPT ![t.req.path] = net]
    ELSE c

\* if (networkResponse.ok) cache.put(request, networkResponse.clone())
StoreIfOk(c, t, net) ==
    IF t.strategy \in Storing /\ Ok(net)
    THEN [c EXCEPT ![t.req.path] = net]
    ELSE c

\* the awaited fetch(request) settles
NetworkSettles(net) ==
    /\ rq.stage = "fetch"
    /\ cache' = StoreIfOk(cache, rq, net)
    /\ stores' = IF rq.strategy \in Storing /\ Ok(net)
                 THEN Opened(stores, version) ELSE stores
    /\ UNCHANGED <<version, waiting, replaced, phase, unhandled>>
    /\ IF rq.strategy = "networkFirstWithCacheFallback" /\ ~Ok(net)
       THEN rq' = [rq EXCEPT !.stage = "fallback", !.net = net]
       ELSE rq' = [rq EXCEPT !.stage = "done", !.net = net,
                             !.reply = ReplyOnNetwork(rq, net)]
    /\ UNCHANGED <<offlineEntry, bg>>
    /\ UNCHANGED nonRouterVars

\* networkFirstWithCacheFallback, catch block
FallbackMatch ==
    /\ UNCHANGED lifeVars
    /\ rq.stage = "fallback"
    /\ rq' = [rq EXCEPT !.stage = "done",
                        !.reply = networkFirstFallback(cache[rq.req.path], offlineEntry)]
    /\ UNCHANGED <<cache, offlineEntry, bg>>
    /\ UNCHANGED nonRouterVars

\* the promise given to respondWith (or the browser's own fetch) settles
Respond ==
    /\ UNCHANGED lifeVars
    /\ rq.stage = "done"
    /\ rq' = IdleTask
    /\ UNCHANGED <<cache, offlineEntry, bg>>
    /\ UNCHANGED nonRouterVars

RemoveAt(seq, i) == SubSeq(seq, 1, i - 1) \o SubSeq(seq, i + 1, Len(seq))

\* fetch(request).then(response => { if (response.ok) { caches.open(...)
\* .then(cache => { cache.put(...) }) } }).catch(() => {}): the promise of
\* the cache write is not returned to the chain, so its rejection (put being
\* FALSE) meets no handler
PutLeftUnhandled(net, put) == Ok(net) /\ ~put

\* the refreshes in flight once the i-th has stored its response: those of
\* the same path that started before it are overtaken
Overtake(seq, i) ==
    [j \in 1..Len(seq) |->
        IF j < i /\ seq[j].path = seq[i].path
        THEN [seq[j] EXCEPT !.overtaken = TRUE] ELSE seq[j]]

\* a background fetch(request) settles: a 2xx response overwrites the entry
\* unless cache.put rejects, anything else is dropped
BackgroundRefresh(i, net, put) ==
    /\ i \in 1..Len(bg)
    /\ cache' = IF Ok(net) /\ put THEN [cache EXCEPT ![bg[i].path] = net] ELSE cache
    /\ stores' = IF Ok(net) THEN Opened(stores, version) ELSE stores
    /\ unhandled' = (unhandled \/ PutLeftUnhandled(net, put))
    /\ UNCHANGED <<version, waiting, replaced, phase>>
    /\ bg' = RemoveAt(IF Ok(net) /\ put THEN Overtake(bg, i) ELSE bg, i)
    /\ UNCHANGED <<offlineEntry, rq>>
    /\ UNCHANGED nonRouterVars

\* the browser evicts the origin's cache storage
StorageCleared ==
    /\ offlineEntry
    /\ cache' = [p \in Paths |-> Miss]
    /\ offlineEntry' = FALSE
    /\ stores' = {}
    /\ UNCHANGED <<version, waiting, replaced, phase, unhandled>>
    /\ UNCHANGED <<rq, bg>>
    /\ UNCHANGED nonRouterVars

RouterNext ==
    \/ \E r \in Requests : FetchEvent(r)
    \/ \E net \in NetOutcomes : BrowserDefault(net)
    \/ CacheHit
    \/ CacheMiss
    \/ \E net \in NetOutcomes : NetworkSettles(net)
    \/ FallbackMatch
    \/ Respond
    \/ \E i \in 1..MaxBg, net \in NetOutcomes, put \in BOOLEAN :
          BackgroundRefresh(i, net, put)
    \/ StorageCleared

(***************************************************************************)
(* The lifecycle of the service worker: install, activate                  *)
(***************************************************************************)
\* a plausible slip: the list given to addAll also names the attendance API
AddAll_WithApi(c) ==
    [p \in Paths |-> IF p \in ESSENTIAL_FILES \cup {TodayPath}
                     THEN Response(200, {"v1"}) ELSE c[p]]

\* cache.addAll(ESSENTIAL_FILES) on a store whose content is c
AddAll(c) ==
    [p \in Paths |-> IF p \in ESSENTIAL_FILES THEN InstalledCache[p] ELSE c[p]]

\* the install listener of a new script runs while the active worker goes on
\* serving: both stores are opened (created when absent), the essential
\* files added, '/offline' put, then self.skipWaiting(); a store the new
\* script shares by name with the active one is written in place
Install(new) ==
    /\ phase = "activated"
    /\ waiting = NoVersion
    /\ new \in NextVersions(version)
    /\ stores' = stores \cup {CACHE_NAME(new), OFFLINE_CACHE(new)}
    /\ cache' = IF CACHE_NAME(new) = CACHE_NAME(version) THEN AddAll(cache) ELSE cache
    /\ offlineEntry' = (offlineEntry \/ OFFLINE_CACHE(new) = OFFLINE_CACHE(version))
    /\ waiting' = new
    /\ UNCHANGED <<rq, bg, version, replaced, phase, unhandled>>
    /\ UNCHANGED nonRouterVars

\* cache.addAll rejects (one of the files is not fetched with a 2xx): the
\* stores have been opened and '/offline' put, nothing is added, the
\* installation fails and the script is discarded
InstallFails(new) ==
    /\ phase = "activated"
    /\ waiting = NoVersion
    /\ new \in NextVersions(version)
    /\ stores' = stores \cup {CACHE_NAME(new), OFFLINE_CACHE(new)}
    /\ offlineEntry' = (offlineEntry \/ OFFLINE_CACHE(new) = OFFLINE_CACHE(version))
    /\ UNCHANGED <<cache, rq, bg, version, waiting, replaced, phase, unhandled>>
    /\ UNCHANGED nonRouterVars

\* skipWaiting() having been called, the waiting worker becomes the active
\* one as soon as the active worker has no pending fetch event; the replaced
\* worker is terminated, its background refreshes with it
Activating ==
    /\ waiting # NoVersion
    /\ rq.stage = "idle"
    /\ version' = waiting
    /\ replaced' = version
    /\ waiting' = NoVersion
    /\ phase' = "activating"
    /\ bg' = <<>>
    /\ cache' = IF CACHE_NAME(waiting) = CACHE_NAME(version) THEN cache
                ELSE AddAll([p \in Paths |-> Miss])
    /\ offlineEntry' = TRUE
    /\ UNCHANGED <<rq, stores, unhandled>>
    /\ UNCHANGED nonRouterVars

\* the activate listener: every store caches.keys() lists is deleted unless
\* it bears one of the two names of this script; then the worker is activated
Activate ==
    /\ phase = "activating"
    /\ stores' = { name \in stores : KeptByActivate(name, version) }
    /\ cache' = IF CACHE_NAME(version) \in stores' THEN cache
                ELSE [p \in Paths |-> Miss]
    /\ offlineEntry' = (offlineEntry /\ OFFLINE_CACHE(version) \in stores')
    /\ phase' = "activated"
    /\ UNCHANGED <<rq, bg, version, waiting, replaced, unhandled>>
    /\ UNCHANGED nonRouterVars

(***************************************************************************)
(* The page: MarcacionApp                                                  *)
(***************************************************************************)
Message(text, type) == [text |-> text, type |-> type]

NoMessage == Message("", "hidden")

\* the state the constructor leaves, init() being at loadTodayAttendance
AppInit ==
    /\ serverRecord = EmptyRecord
    /\ loads = <<[stage |-> "match", reply |-> None, awaitedBy |-> "init"]>>
    /\ posts = <<>>
    /\ currentMarcationType = Null
    /\ isProcessing = FALSE
    /\ connectionStatus = TRUE
    /\ online = TRUE
    /\ qrScanner = 0
    /\ running = {}
    /\ scanTimeout = 0
    /\ armed = {}
    /\ procTimers = 0
    /\ cancelled = FALSE
    /\ statusMessage = NoMessage
    /\ ready = FALSE

\* the page before its script runs, for the specifications without the page
AppIdle ==
    /\ serverRecord = EmptyRecord
    /\ loads = <<>>
    /\ posts = <<>>
    /\ currentMarcationType = Null
    /\ isProcessing = FALSE
    /\ connectionStatus = TRUE
    /\ online = TRUE
    /\ qrScanner = 0
    /\ running = {}
    /\ scanTimeout = 0
    /\ armed = {}
    /\ procTimers = 0
    /\ cancelled = FALSE
    /\ statusMessage = NoMessage
    /\ ready = FALSE

EvalIdle ==
    /\ attendance = EmptyRecord
    /\ parsed = "object"
    /\ evaluated = FALSE
    /\ thrown = FALSE
    /\ cards = InitialCards

\* GET /api/attendance/today as loadTodayAttendance sends it
TodayRequest == [origin |-> "same", method |-> "GET", path |-> TodayPath,
                 mode |-> "cors", accept |-> "*/*", body |-> "none"]

\* POST /api/attendance/mark as processQRCode sends it, with its JSON body
MarkRequest == [origin |-> "same", method |-> "POST", path |-> MarkPath,
                mode |-> "cors", accept |-> "*/*", body |-> "json"]

\* the server's answers to GET /api/attendance/today, and a lost connection
TodayOutcomes ==
    { Val("response", 200, {"attendance"}, serverRecord),
      Response(500, ErrorBody),
      NetworkError }

\* the server accepts a punch its own record allows (section 4.1)
ServerAccepts(rec, type) ==
    "available" \in updateMarcationCards(InitialCards, rec)[type].classes

\* the server writes the time of the punch into the field of its type
ServerPunch(rec, type, tm) ==
    CASE type = "Ingreso"              -> [rec EXCEPT !.horaentrada = tm]
      [] type = "Inicio de Refrigerio" -> [rec EXCEPT !.horaRefrigerioInicio = tm]
      [] type = "Salida de Refrigerio" -> [rec EXCEPT !.horaRefrigerioFin = tm]
      [] type = "Salida"               -> [rec EXCEPT !.horasalida = tm]

\* the time the server stamps a punch with
ServerTimes == { TimeStrings[1] }

MarkAccepted == Response(200, {"message:Marcacion registrada", "time"})
MarkRefused  == Response(400, ErrorBody)

\* the service worker's task for a request of the page
TaskOf(req, bodyUsed) == Task(req, Classify(req), "fetch", bodyUsed, None, None)

------------------------------------------------------------------------------
\* loadTodayAttendance: the service worker finds the request in the cache,
\* answers with the entry and re-fetches in the background
LoadCacheHit(i) ==
    /\ UNCHANGED lifeVars
    /\ i \in 1..Len(loads)
    /\ loads[i].stage = "match"
    /\ IsResponse(cache[TodayPath])
    /\ Len(bg) < MaxBg
    /\ loads' = [loads EXCEPT ![i].stage = "done", ![i].reply = cache[TodayPath]]
    /\ bg' = Append(bg, Refresh(TodayPath))
    /\ UNCHANGED <<evalVars, cache, offlineEntry, rq, serverRecord, posts,
                   currentMarcationType, isProcessing, connectionStatus, online,
                   scanVars, statusMessage, ready>>

\* the service worker finds nothing and awaits fetch(request)
LoadCacheMiss(i) ==
    /\ UNCHANGED lifeVars
    /\ i \in 1..Len(loads)
    /\ loads[i].stage = "match"
    /\ ~IsResponse(cache[TodayPath])
    /\ loads' = [loads EXCEPT ![i].stage = "fetch"]
    /\ UNCHANGED <<evalVars, routerVars, serverRecord, posts,
                   currentMarcationType, isProcessing, connectionStatus, online,
                   scanVars, statusMessage, ready>>

\* the awaited fetch of a load settles
LoadNetwork(i, net) ==
    /\ i \in 1..Len(loads)
    /\ loads[i].stage = "fetch"
    /\ LET t == TaskOf(TodayRequest, FALSE) IN
         /\ cache' = StoreIfOk(cache, t, net)
         /\ stores' = IF Ok(net) THEN Opened(stores, version) ELSE stores
         /\ loads' = [loads EXCEPT ![i].stage = "done",
                                   ![i].reply = ReplyOnNetwork(t, net)]
    /\ UNCHANGED <<evalVars, offlineEntry, rq, bg, serverRecord, posts,
                   currentMarcationType, isProcessing, connectionStatus, online,
                   scanVars, statusMessage, ready>>
    /\ UNCHANGED <<version, waiting, replaced, phase, unhandled>>

\* the processQRCode call that awaits loadTodayAttendance
Reloading == CHOOSE j \in 1..Len(posts) : posts[j].stage = "reload"

\* loadTodayAttendance gets its response: a response that is not ok is
\* reported, an ok one is parsed and rendered; then its caller goes on:
\* init() sets up the listeners and the auto-refresh, processQRCode runs to
\* its finally block
LoadDeliver(i) ==
    /\ UNCHANGED lifeVars
    /\ i \in 1..Len(loads)
    /\ loads[i].stage = "done"
    /\ LET l == loads[i]
           ok == Ok(l.reply)
       IN  /\ cards' = IF ok THEN updateMarcationCards(cards, l.reply.rec) ELSE cards
           /\ attendance' = IF ok THEN l.reply.rec ELSE attendance
           /\ evaluated' = (evaluated \/ ok)
           /\ UNCHANGED <<parsed, thrown>>
           /\ statusMessage' =
                  IF ok THEN statusMessage
                  ELSE Message("Error cargando marcaciones del dia", "error")
           /\ ready' = (ready \/ l.awaitedBy = "init")
           /\ IF l.awaitedBy = "post"
              THEN /\ posts' = RemoveAt(posts, Reloading)
                   /\ isProcessing' = FALSE
                   /\ currentMarcationType' = Null
              ELSE UNCHANGED <<posts, isProcessing, currentMarcationType>>
    /\ loads' = RemoveAt(loads, i)
    /\ UNCHANGED <<routerVars, serverRecord, connectionStatus, online, scanVars>>

NewLoad(by) == [stage |-> "match", reply |-> None, awaitedBy |-> by]

\* startAutoRefresh: the interval callback
AutoRefresh ==
    /\ UNCHANGED lifeVars
    /\ ready
    /\ ~isProcessing
    /\ Len(loads) < MaxLoads
    /\ loads' = Append(loads, NewLoad("none"))
    /\ UNCHANGED <<evalVars, routerVars, serverRecord, posts,
                   currentMarcationType, isProcessing, connectionStatus, online,
                   scanVars, statusMessage, ready>>

\* the visibilitychange listener, the page becoming visible
VisibilityChange ==
    /\ UNCHANGED lifeVars
    /\ ready
    /\ Len(loads) < MaxLoads
    /\ loads' = Append(loads, NewLoad("none"))
    /\ UNCHANGED <<evalVars, routerVars, serverRecord, posts,
                   currentMarcationType, isProcessing, connectionStatus, online,
                   scanVars, statusMessage, ready>>

------------------------------------------------------------------------------
\* ids no scanner instance and no timer uses
FreeIds == (1..MaxSessions) \ (running \cup armed \cup {qrScanner, scanTimeout})

NewId == CHOOSE n \in FreeIds : \A m \in FreeIds : n <= m

\* a plausible slip: the listener is given to every card that is not disabled
HasClickListener_NotDisabled(type) == "disabled" \notin cards[type].classes

\* the click listener reassignCardEvents gave the card, attached only to a
\* card that was 'available' when the cards were rendered last
HasClickListener(type) == "available" \in cards[type].classes

\* the click listener of a card, startQRScan included: a new Html5Qrcode
\* instance is started and a new 120 s timer set; neither an earlier
\* instance nor an earlier timer is stopped
CardClick(type) ==
    /\ UNCHANGED lifeVars
    /\ HasClickListener(type)
    /\ ~isProcessing
    /\ FreeIds # {}
    /\ currentMarcationType' = type
    /\ qrScanner' = NewId
    /\ running' = running \cup {NewId}
    /\ scanTimeout' = NewId
    /\ armed' = armed \cup {NewId}
    /\ cancelled' = FALSE
    /\ UNCHANGED <<evalVars, routerVars, serverRecord, loads, posts,
                   isProcessing, connectionStatus, online, procTimers, statusMessage,
                   ready>>

\* the scan callback of a running instance: setTimeout(..., 800)
ScanSuccess(id) ==
    /\ UNCHANGED lifeVars
    /\ id \in running
    /\ procTimers < MaxTimers
    /\ procTimers' = procTimers + 1
    /\ UNCHANGED <<evalVars, routerVars, serverRecord, loads, posts,
                   currentMarcationType, isProcessing, connectionStatus, online,
                   qrScanner, running, scanTimeout, armed, cancelled,
                   statusMessage, ready>>

\* stopQRScan: clearTimeout(this.scanTimeout), this.qrScanner.stop(), both
\* references set to null; `a` is the set of armed timers before it
StopQRScan(a) ==
    /\ armed' = a \ {scanTimeout}
    /\ scanTimeout' = 0
    /\ running' = running \ {qrScanner}
    /\ qrScanner' = 0

\* the guard of processQRCode, without its test of the flag
ProcessGuard_NoFlag == currentMarcationType # Null

\* processQRCode goes on when neither isProcessing nor !currentMarcationType
ProcessGuard == ~isProcessing /\ currentMarcationType # Null

NewPost(type) ==
    [type |-> type, stage |-> "fetch", net |-> None, reply |-> None]

\* an 800 ms timer fires: processQRCode(decodedText) up to its first await,
\* then stopQRScan()
ProcessTimer ==
    /\ UNCHANGED lifeVars
    /\ procTimers > 0
    /\ procTimers' = procTimers - 1
    /\ IF ProcessGuard
       THEN /\ Len(posts) < MaxPosts
            /\ isProcessing' = TRUE
            /\ statusMessage' = Message("Procesando marcacion...", "info")
            /\ posts' = Append(posts, NewPost(currentMarcationType))
       ELSE /\ statusMessage' =
                  Message("Selecciona un tipo de marcacion primero", "error")
            /\ UNCHANGED <<isProcessing, posts>>
    /\ StopQRScan(armed)
    /\ UNCHANGED <<evalVars, routerVars, serverRecord, loads,
                   currentMarcationType, connectionStatus, online, cancelled, ready>>

\* the 120 s timer of startQRScan fires
ScanTimeoutFires(id) ==
    /\ UNCHANGED lifeVars
    /\ id \in armed
    /\ StopQRScan(armed \ {id})
    /\ cancelled' = TRUE
    /\ statusMessage' = Message("Tiempo de escaneo agotado", "info")
    /\ UNCHANGED <<evalVars, routerVars, serverRecord, loads, posts,
                   currentMarcationType, isProcessing, connectionStatus, online,
                   procTimers, ready>>

\* the close button of the reader (cameraCloseBtn)
CancelScan ==
    /\ UNCHANGED lifeVars
    /\ qrScanner # 0
    /\ StopQRScan(armed)
    /\ cancelled' = TRUE
    /\ UNCHANGED <<evalVars, routerVars, serverRecord, loads, posts,
                   currentMarcationType, isProcessing, connectionStatus, online,
                   procTimers, statusMessage, ready>>

------------------------------------------------------------------------------
\* the service worker's fetch(request) of a POST settles and its strategy
\* returns: `net` is the answer of the network, `rec` the server's record
\* after it
PostSettles(i, net, rec) ==
    /\ UNCHANGED lifeVars
    /\ i \in 1..Len(posts)
    /\ posts[i].stage = "fetch"
    /\ serverRecord' = rec
    /\ posts' = [posts EXCEPT
                    ![i].stage = "done",
                    ![i].net = net,
                    ![i].reply = ReplyOnNetwork(
                                     TaskOf(MarkRequest, BodyUsedByFetch(MarkRequest)),
                                     net)]
    /\ UNCHANGED <<evalVars, routerVars, loads, currentMarcationType,
                   isProcessing, connectionStatus, online, scanVars, statusMessage,
                   ready>>

\* the server records the punch and answers 200 with message and time
ServerMarks(i) ==
    /\ i \in 1..Len(posts)
    /\ ServerAccepts(serverRecord, posts[i].type)
    /\ \E tm \in ServerTimes :
          PostSettles(i, MarkAccepted, ServerPunch(serverRecord, posts[i].type, tm))

\* the server refuses the punch: a non-2xx answer with an error body
ServerRefuses(i) == PostSettles(i, MarkRefused, serverRecord)

\* the request does not reach the server
PostFails(i) == PostSettles(i, NetworkError, serverRecord)

\* the network answers the POST with a 200 whose body is no JSON text
PostUnparsable(i) == PostSettles(i, Response(200, HtmlBody), serverRecord)

\* a plausible slip: the flag and the selected type are reset at the end of
\* the try block instead of in finally, so the paths through catch keep them
PostDeliver_ResetInTry(i) ==
    /\ UNCHANGED lifeVars
    /\ i \in 1..Len(posts)
    /\ posts[i].stage = "done"
    /\ LET r == posts[i].reply
           parses == IsResponse(r) /\ ~ResponseJsonThrows(r)
       IN
         IF parses /\ Ok(r)
         THEN /\ Len(loads) < MaxLoads
              /\ statusMessage' = Message("result.message", "success")
              /\ loads' = Append(loads, NewLoad("post"))
              /\ posts' = [posts EXCEPT ![i].stage = "reload"]
              /\ UNCHANGED <<isProcessing, currentMarcationType>>
         ELSE /\ statusMessage' =
                    IF parses
                    THEN Message("result.error", "error")
                    ELSE IF connectionStatus
                    THEN Message("Error de comunicacion con el servidor", "error")
                    ELSE Message("Sin conexion al servidor", "error")
              /\ posts' = RemoveAt(posts, i)
              /\ isProcessing' = (isProcessing /\ ~parses)
              /\ currentMarcationType' =
                    IF parses THEN Null ELSE currentMarcationType
              /\ UNCHANGED loads
    /\ UNCHANGED <<evalVars, routerVars, serverRecord, connectionStatus, online,
                   scanVars, ready>>

\* processQRCode after `await fetch(...)`: the catch block when fetch
\* rejected or response.json() did; else, the response being ok, the
\* message is shown and loadTodayAttendance awaited; else the error is
\* shown; the finally block ends every path but the awaiting one
PostDeliver(i) ==
    /\ UNCHANGED lifeVars
    /\ i \in 1..Len(posts)
    /\ posts[i].stage = "done"
    /\ LET r == posts[i].reply
           parses == IsResponse(r) /\ ~ResponseJsonThrows(r)
       IN
         IF parses /\ Ok(r)
         THEN /\ Len(loads) < MaxLoads
              /\ statusMessage' = Message("result.message", "success")
              /\ loads' = Append(loads, NewLoad("post"))
              /\ posts' = [posts EXCEPT ![i].stage = "reload"]
              /\ UNCHANGED <<isProcessing, currentMarcationType>>
         ELSE /\ statusMessage' =
                    IF parses
                    THEN Message("result.error", "error")
                    ELSE IF connectionStatus
                    THEN Message("Error de comunicacion con el servidor", "error")
                    ELSE Message("Sin conexion al servidor", "error")
              /\ posts' = RemoveAt(posts, i)
              /\ isProcessing' = FALSE
              /\ currentMarcationType' = Null
              /\ UNCHANGED loads
    /\ UNCHANGED <<evalVars, routerVars, serverRecord, connectionStatus, online,
                   scanVars, ready>>

AppNext ==
    \/ \E i \in 1..MaxLoads : LoadCacheHit(i)
    \/ \E i \in 1..MaxLoads : LoadCacheMiss(i)
    \/ \E i \in 1..MaxLoads : \E net \in TodayOutcomes : LoadNetwork(i, net)
    \/ \E i \in 1..MaxLoads : LoadDeliver(i)
    \/ \E i \in 1..MaxBg : \E net \in TodayOutcomes : BackgroundRefresh(i, net, TRUE)
    \/ AutoRefresh
    \/ VisibilityChange
    \/ \E type \in Types : CardClick(type)
    \/ \E id \in 1..MaxSessions : ScanSuccess(id)
    \/ ProcessTimer
    \/ \E id \in 1..MaxSessions : ScanTimeoutFires(id)
    \/ CancelScan
    \/ \E i \in 1..MaxPosts : ServerMarks(i)
    \/ \E i \in 1..MaxPosts : ServerRefuses(i)
    \/ \E i \in 1..MaxPosts : PostFails(i)
    \/ \E i \in 1..MaxPosts : PostUnparsable(i)
    \/ \E i \in 1..MaxPosts : PostDeliver(i)

(***************************************************************************)
(* Spec: the page, the service worker in front of it, and the server       *)
(***************************************************************************)
Init == EvalIdle /\ RouterInit /\ AppInit

Next == AppNext

Spec == Init /\ [][Next]_vars

(***************************************************************************)
(* SpecTimeout: the page of a user who selects punch types and then        *)
(* neither shows a code to the camera nor closes the reader; a timer that  *)
(* is set and not cleared fires in the end                                 *)
(***************************************************************************)
TimeoutNext ==
    \/ \E i \in 1..MaxLoads : LoadCacheHit(i)
    \/ \E i \in 1..MaxLoads : LoadCacheMiss(i)
    \/ \E i \in 1..MaxLoads : \E net \in TodayOutcomes : LoadNetwork(i, net)
    \/ \E i \in 1..MaxLoads : LoadDeliver(i)
    \/ \E i \in 1..MaxBg : \E net \in TodayOutcomes : BackgroundRefresh(i, net, TRUE)
    \/ AutoRefresh
    \/ VisibilityChange
    \/ \E type \in Types : CardClick(type)
    \/ \E id \in 1..MaxSessions : ScanTimeoutFires(id)

\* setTimeout: the callback of an armed timer is run once its delay is over
TimersFire == \A id \in 1..MaxSessions : WF_vars(ScanTimeoutFires(id))

SpecTimeout == Init /\ [][TimeoutNext]_vars /\ TimersFire

(***************************************************************************)
(* SpecSubmit: the page of a user who selects, scans and submits while the *)
(* page stays visible, every request of the page being answered in the end *)
(***************************************************************************)
\* the network answers the POST of call i, one way or another
PostAnswered(i) ==
    ServerMarks(i) \/ ServerRefuses(i) \/ PostFails(i) \/ PostUnparsable(i)

SubmitNext ==
    \/ \E i \in 1..MaxLoads : LoadCacheHit(i)
    \/ \E i \in 1..MaxLoads : LoadCacheMiss(i)
    \/ \E i \in 1..MaxLoads : \E net \in TodayOutcomes : LoadNetwork(i, net)
    \/ \E i \in 1..MaxLoads : LoadDeliver(i)
    \/ \E i \in 1..MaxBg : \E net \in TodayOutcomes : BackgroundRefresh(i, net, TRUE)
    \/ AutoRefresh
    \/ \E type \in Types : CardClick(type)
    \/ \E id \in 1..MaxSessions : ScanSuccess(id)
    \/ ProcessTimer
    \/ \E i \in 1..MaxPosts : PostAnswered(i)
    \/ \E i \in 1..MaxPosts : PostDeliver(i)

\* every fetch settles, and a promise that has settled runs its continuation
RequestsSettle ==
    /\ WF_vars(\E i \in 1..MaxLoads : LoadCacheHit(i))
    /\ WF_vars(\E i \in 1..MaxLoads : LoadCacheMiss(i))
    /\ WF_vars(\E i \in 1..MaxLoads : \E net \in TodayOutcomes : LoadNetwork(i, net))
    /\ WF_vars(\E i \in 1..MaxLoads : LoadDeliver(i))
    /\ WF_vars(\E i \in 1..MaxBg : \E net \in TodayOutcomes :
                  BackgroundRefresh(i, net, TRUE))
    /\ WF_vars(\E i \in 1..MaxPosts : PostAnswered(i))
    /\ WF_vars(\E i \in 1..MaxPosts : PostDeliver(i))

SpecSubmit == Init /\ [][SubmitNext]_vars /\ RequestsSettle

\* the service worker installed and activated, the script of the page not
\* yet run
SpecRouterInit == RouterInit /\ EvalIdle /\ AppIdle

(***************************************************************************)
(* SpecInit: the page opened again and again on a device that loses and    *)
(* regains its network; init() checks the connection through the service   *)
(* worker and then loads the record of the day                             *)
(***************************************************************************)
\* fetch('/api/health', { method: 'GET', headers: {...} })
HealthRequest == [origin |-> "same", method |-> "GET", path |-> HealthPath,
                  mode |-> "cors", accept |-> "*/*", body |-> "none"]

\* init(): this.showMessage('Error al inicializar la aplicacion', 'error')
InitFailed == Message("Error al inicializar la aplicacion", "error")

\* init() calls checkConnection, whose fetch reaches the service worker
CheckConnection ==
    /\ ~ready
    /\ loads = <<>>
    /\ statusMessage = NoMessage
    /\ FetchEvent(HealthRequest)

\* checkConnection gets its response: connectionStatus = response.ok; when
\* it is false (or fetch rejected) checkConnection throws and init() reports
\* the failure and ends; otherwise init() goes on to loadTodayAttendance
CheckDelivers ==
    /\ UNCHANGED lifeVars
    /\ rq.stage = "done"
    /\ rq.req = HealthRequest
    /\ rq' = IdleTask
    /\ connectionStatus' = Ok(rq.reply)
    /\ IF Ok(rq.reply)
       THEN /\ loads' = <<NewLoad("init")>>
            /\ statusMessage' = statusMessage
       ELSE /\ loads' = loads
            /\ statusMessage' = InitFailed
    /\ UNCHANGED <<evalVars, cache, offlineEntry, bg, serverRecord, posts,
                   currentMarcationType, isProcessing, online, scanVars, ready>>

\* the device loses or regains its network, no request being under way
NetworkChanges ==
    /\ rq.stage = "idle"
    /\ loads = <<>>
    /\ bg = <<>>
    /\ online' = ~online
    /\ UNCHANGED <<evalVars, routerVars, lifeVars, serverRecord, loads, posts,
                   currentMarcationType, isProcessing, connectionStatus,
                   scanVars, statusMessage, ready>>

\* the page is opened anew: a new document, new MarcacionApp(), whose
\* constructor sets the fields and calls init()
PageReopened ==
    /\ rq.stage = "idle"
    /\ loads = <<>>
    /\ posts = <<>>
    /\ running = {}
    /\ armed = {}
    /\ procTimers = 0
    /\ attendance' = EmptyRecord
    /\ parsed' = "object"
    /\ evaluated' = FALSE
    /\ thrown' = FALSE
    /\ cards' = InitialCards
    /\ currentMarcationType' = Null
    /\ isProcessing' = FALSE
    /\ connectionStatus' = TRUE
    /\ qrScanner' = 0
    /\ scanTimeout' = 0
    /\ cancelled' = FALSE
    /\ statusMessage' = NoMessage
    /\ ready' = FALSE
    /\ UNCHANGED <<routerVars, lifeVars, serverRecord, online, loads, posts,
                   running, armed, procTimers>>

\* what a request sent to the network may yield: anything while the network
\* is reachable, a rejected fetch while it is not
Reaches(net) == online \/ net = NetworkError

InitNext ==
    \/ CheckConnection
    \/ CacheHit
    \/ CacheMiss
    \/ \E net \in NetOutcomes : Reaches(net) /\ NetworkSettles(net)
    \/ CheckDelivers
    \/ \E i \in 1..MaxLoads : LoadCacheHit(i)
    \/ \E i \in 1..MaxLoads : LoadCacheMiss(i)
    \/ \E i \in 1..MaxLoads : \E net \in TodayOutcomes :
          Reaches(net) /\ LoadNetwork(i, net)
    \/ \E i \in 1..MaxLoads : LoadDeliver(i)
    \/ \E i \in 1..MaxBg : \E net \in NetOutcomes :
          Reaches(net) /\ BackgroundRefresh(i, net, TRUE)
    \/ NetworkChanges
    \/ PageReopened

SpecInit == SpecRouterInit /\ [][InitNext]_vars

(***************************************************************************)
(* SpecRefresh: the attendance API asked again and again, up to MaxOverlap  *)
(* background refreshes of its entry in flight                             *)
(***************************************************************************)
RefreshNext ==
    \/ FetchEvent(TodayRequest)
    \/ CacheHitWithin(MaxOverlap)
    \/ CacheMiss
    \/ \E net \in NetOutcomes : NetworkSettles(net)
    \/ Respond
    \/ \E i \in 1..MaxOverlap, net \in NetOutcomes, put \in BOOLEAN :
          BackgroundRefresh(i, net, put)
    \/ StorageCleared

SpecRefresh == SpecRouterInit /\ [][RefreshNext]_vars

(***************************************************************************)
(* SpecRouter: the service worker answering one request after another      *)
(***************************************************************************)
SpecRouter == SpecRouterInit /\ [][RouterNext]_vars

(***************************************************************************)
(* SpecLifecycle: versions of the service worker replacing one another     *)
(* while the active one answers the requests of the page                   *)
(***************************************************************************)
\* the first version has been installed and starts activating; the origin
\* still holds a store of an older generation of the application
LifecycleInit ==
    /\ cache = InstalledCache
    /\ offlineEntry = TRUE
    /\ rq = IdleTask
    /\ bg = <<>>
    /\ stores = {CACHE_NAME(FirstVersion), OFFLINE_CACHE(FirstVersion), LegacyStore}
    /\ version = FirstVersion
    /\ waiting = NoVersion
    /\ replaced = NoVersion
    /\ phase = "activating"
    /\ unhandled = FALSE
    /\ EvalIdle
    /\ AppIdle

\* a navigation to a page outside the essential files
PageRequest == [origin |-> "same", method |-> "GET", path |-> PagePath,
                mode |-> "navigate", accept |-> "text/html", body |-> "none"]

\* a navigation to the dashboard and the request of the style sheet
DashboardRequest == [origin |-> "same", method |-> "GET", path |-> DashboardPath,
                     mode |-> "navigate", accept |-> "text/html", body |-> "none"]
StyleRequest == [origin |-> "same", method |-> "GET", path |-> StylePath,
                 mode |-> "cors", accept |-> "*/*", body |-> "none"]

\* the requests of the controlled page
PageRequests == {TodayRequest, DashboardRequest, StyleRequest, PageRequest,
                 MarkRequest}

LifecycleNext ==
    \/ \E r \in PageRequests : FetchEvent(r)
    \/ CacheHit
    \/ CacheMiss
    \/ \E net \in NetOutcomes : NetworkSettles(net)
    \/ FallbackMatch
    \/ Respond
    \/ \E i \in 1..MaxBg, net \in NetOutcomes, put \in BOOLEAN :
          BackgroundRefresh(i, net, put)
    \/ \E new \in Versions : Install(new)
    \/ \E new \in Versions : InstallFails(new)
    \/ Activating
    \/ Activate

SpecLifecycle == LifecycleInit /\ [][LifecycleNext]_vars

(***************************************************************************)
(* SpecEval: the evaluation on every record                                *)
(***************************************************************************)
\* the values updateMarcationCards may be called with: any object, or a
\* value that is no object, whose four properties cannot be read (null) or
\* read as undefined
Parsed(kind, a) == kind = "object" \/ a = EmptyRecord

EvalInit ==
    /\ parsed \in JsonKinds
    /\ attendance \in Records
    /\ Parsed(parsed, attendance)
    /\ evaluated = FALSE
    /\ thrown = FALSE
    /\ cards = InitialCards
    /\ RouterInit
    /\ AppIdle

\* updateMarcationCards(attendance), the argument being an object or a value
\* whose properties read as undefined
Evaluate ==
    /\ UNCHANGED lifeVars
    /\ ~evaluated /\ ~thrown
    /\ ~PropertyReadThrows(parsed)
    /\ cards' = updateMarcationCards(cards, attendance)
    /\ evaluated' = TRUE
    /\ UNCHANGED <<attendance, parsed, thrown>>
    /\ UNCHANGED <<routerVars, appVars>>

\* updateMarcationCards(null): a TypeError leaves the function at the first
\* card, whichever the document lists first
EvaluateThrows ==
    /\ UNCHANGED lifeVars
    /\ ~evaluated /\ ~thrown
    /\ PropertyReadThrows(parsed)
    /\ \E first \in Types : cards' = updateMarcationCardsThrown(cards, first)
    /\ thrown' = TRUE
    /\ UNCHANGED <<attendance, parsed, evaluated>>
    /\ UNCHANGED <<routerVars, appVars>>

\* the next response body arrives; the cards keep what the last evaluation left
NextRecord ==
    /\ UNCHANGED lifeVars
    /\ evaluated \/ thrown
    /\ \E k \in JsonKinds, a \in Records :
          /\ Parsed(k, a)
          /\ parsed' = k
          /\ attendance' = a
    /\ evaluated' = FALSE
    /\ thrown' = FALSE
    /\ UNCHANGED cards
    /\ UNCHANGED <<routerVars, appVars>>

EvalNext == Evaluate \/ EvaluateThrows \/ NextRecord

SpecEval == EvalInit /\ [][EvalNext]_vars

(***************************************************************************)
(* Reading a card as an eligibility result                                 *)
(***************************************************************************)
StatusOf(t) == cards[t].classes \cap StatusClasses

Completed(t) == StatusOf(t) = {"completed"}
Available(t) == StatusOf(t) = {"available"}
Blocked(t)   == StatusOf(t) = {"disabled"}

\* reason codes as the status texts the code writes
NoEntry         == "Requiere ingreso"
NoBreakStart    == "Requiere inicio refrigerio"
BreakInProgress == "Termine refrigerio primero"
Unavailable     == "No disponible"

BlockedBy(t, reason) == Blocked(t) /\ cards[t].status = reason

Set(f)   == Truthy(f)
Unset(f) == ~Truthy(f)

(***************************************************************************)
(* Claims on the evaluation (SpecEval)                                     *)
(***************************************************************************)
EntryUnset == evaluated /\ Unset(attendance.horaentrada)

\* C7 as stated: for every record with entryTime unset, whatever the other
\* three fields are, Entry is Available and BreakStart, BreakEnd and Exit are
\* Blocked(NoEntry).
C7_AsStated ==
    EntryUnset =>
        /\ Available("Ingreso")
        /\ BlockedBy("Inicio de Refrigerio", NoEntry)
        /\ BlockedBy("Salida de Refrigerio", NoEntry)
        /\ BlockedBy("Salida", NoEntry)

\* C7 amended: for every record with entryTime unset, Entry is Available and
\* each of BreakStart, BreakEnd and Exit is Blocked(NoEntry) unless its own
\* field is set (then it is Completed) or, for BreakEnd, breakStartTime is
\* set and exitTime is unset (then it is Available).
C7_EntryUnset ==
    EntryUnset =>
        /\ Available("Ingreso")
        /\ IF Set(attendance.horaRefrigerioInicio)
           THEN Completed("Inicio de Refrigerio")
           ELSE BlockedBy("Inicio de Refrigerio", NoEntry)
        /\ IF Set(attendance.horaRefrigerioFin)
           THEN Completed("Salida de Refrigerio")
           ELSE IF Set(attendance.horaRefrigerioInicio) /\ Unset(attendance.horasalida)
           THEN Available("Salida de Refrigerio")
           ELSE BlockedBy("Salida de Refrigerio", NoEntry)
        /\ IF Set(attendance.horasalida)
           THEN Completed("Salida")
           ELSE BlockedBy("Salida", NoEntry)

\* an evaluated record without entry whose exit is set: Exit is Completed
\* while BreakStart is Blocked(NoEntry)
C7_Witness ==
    /\ EntryUnset
    /\ Set(attendance.horasalida)
    /\ Unset(attendance.horaRefrigerioInicio)
    /\ BlockedBy("Inicio de Refrigerio", NoEntry)
    /\ Completed("Salida")

BreakRunning ==
    /\ evaluated
    /\ Set(attendance.horaRefrigerioInicio)
    /\ Unset(attendance.horaRefrigerioFin)
    /\ Unset(attendance.horasalida)

\* C8 as stated: for every record with breakStartTime set, breakEndTime unset
\* and exitTime unset, whatever entryTime is, BreakEnd is Available and Exit
\* is Blocked(BreakInProgress).
C8_AsStated ==
    BreakRunning =>
        /\ Available("Salida de Refrigerio")
        /\ BlockedBy("Salida", BreakInProgress)

\* C8 amended: for every such record BreakEnd is Available and Exit is
\* Blocked, with reason BreakInProgress when entryTime is set and NoEntry
\* when entryTime is unset.
C8_BreakRunning ==
    BreakRunning =>
        /\ Available("Salida de Refrigerio")
        /\ IF Set(attendance.horaentrada)
           THEN BlockedBy("Salida", BreakInProgress)
           ELSE BlockedBy("Salida", NoEntry)

C8_Witness ==
    /\ BreakRunning
    /\ Unset(attendance.horaentrada)
    /\ Available("Salida de Refrigerio")
    /\ Blocked("Salida")

EntryOnly ==
    /\ evaluated
    /\ Set(attendance.horaentrada)
    /\ Unset(attendance.horaRefrigerioInicio)
    /\ Unset(attendance.horaRefrigerioFin)
    /\ Unset(attendance.horasalida)

\* C9: for every record with entryTime set and the other three fields unset,
\* Entry is Completed and carries the entry time, BreakStart and Exit are
\* Available and BreakEnd is Blocked(NoBreakStart).
C9_EntryOnly ==
    EntryOnly =>
        /\ Completed("Ingreso")
        /\ cards["Ingreso"].time = attendance.horaentrada
        /\ Available("Inicio de Refrigerio")
        /\ Available("Salida")
        /\ BlockedBy("Salida de Refrigerio", NoBreakStart)

C9_Witness ==
    /\ EntryOnly
    /\ attendance.horaentrada = "08:00"
    /\ cards["Ingreso"].time = "08:00"

\* the reason the listed priority gives a Blocked type: entry missing first,
\* then the break state, then the generic text
ReasonByPriority(t, a) ==
    IF Unset(a.horaentrada) THEN NoEntry
    ELSE CASE t = "Salida de Refrigerio" ->
                 IF Unset(a.horaRefrigerioInicio) THEN NoBreakStart ELSE Unavailable
           [] t = "Salida" ->
                 IF Set(a.horaRefrigerioInicio) /\ Unset(a.horaRefrigerioFin)
                 THEN BreakInProgress ELSE Unavailable
           [] OTHER -> Unavailable

\* C10: for each combination of set and unset fields every punch type has
\* exactly one status among Completed, Available and Blocked, and a Blocked
\* type carries exactly the reason the priority order gives: NoEntry whenever
\* entryTime is unset, before any break-state reason.
C10_OneStatusOneReason ==
    evaluated =>
        \A t \in Types :
            /\ Cardinality(StatusOf(t)) = 1
            /\ Blocked(t) => cards[t].status = ReasonByPriority(t, attendance)
            /\ (Blocked(t) /\ Unset(attendance.horaentrada)) => cards[t].status = NoEntry

\* a second evaluation, of a record whose entry is missing while a break is
\* running: the Exit card, Available before, is now Blocked
C10_Witness ==
    /\ evaluated
    /\ Unset(attendance.horaentrada)
    /\ Set(attendance.horaRefrigerioInicio)
    /\ Unset(attendance.horaRefrigerioFin)
    /\ BlockedBy("Salida", NoEntry)
    /\ Completed("Inicio de Refrigerio")

\* C11: in every evaluated record Exit is not Available while a break is in
\* progress (breakStartTime set, breakEndTime unset), and neither BreakStart
\* nor BreakEnd is Available once exitTime is set.
C11_NeverAvailable ==
    evaluated =>
        /\ (Set(attendance.horaRefrigerioInicio) /\ Unset(attendance.horaRefrigerioFin))
               => ~Available("Salida")
        /\ Set(attendance.horasalida)
               => /\ ~Available("Inicio de Refrigerio")
                  /\ ~Available("Salida de Refrigerio")

\* a record with the break in progress and the exit already punched: Exit is
\* Completed, BreakEnd is Blocked although its break has started
C11_Witness ==
    /\ evaluated
    /\ Set(attendance.horaentrada)
    /\ Set(attendance.horaRefrigerioInicio)
    /\ Unset(attendance.horaRefrigerioFin)
    /\ Set(attendance.horasalida)
    /\ Completed("Salida")
    /\ BlockedBy("Salida de Refrigerio", Unavailable)

\* updateMarcationCards has been called with a value that is no object
Malformed == parsed # "object" /\ (evaluated \/ thrown)

\* C12 as stated: evaluating a missing or malformed record (null, or a value
\* without the four fields) raises no exception and gives the result of the
\* empty record: Entry Available, the other three types Blocked(NoEntry).
C12_AsStated ==
    Malformed =>
        /\ ~thrown
        /\ Available("Ingreso")
        /\ BlockedBy("Inicio de Refrigerio", NoEntry)
        /\ BlockedBy("Salida de Refrigerio", NoEntry)
        /\ BlockedBy("Salida", NoEntry)

(***************************************************************************)
(* Claims on the submission flow (Spec)                                    *)
(***************************************************************************)
\* a processQRCode call passes its guard in this step and sends its POST
Sends == Len(posts') > Len(posts)

\* the POSTs the page has sent and not yet got an answer to
InFlight == { i \in 1..Len(posts) : posts[i].stage \in {"fetch", "done"} }

\* C1 as stated: whenever the page sends a POST for punch type t, t is
\* Available on the record the page has rendered last at that moment; a
\* submission for a Blocked or Completed type sends nothing.
C1_AsStated ==
    [][Sends => Available(posts'[Len(posts')].type)]_vars

\* C2: at most one submission is in flight at any time, and one is in
\* flight only while isProcessing is set, so a scan delivered meanwhile
\* sends no request.
C2_OneInFlight ==
    /\ Len(posts) <= 1
    /\ InFlight # {} => isProcessing

\* a scan was delivered while the POST was in flight, and was turned away
C2_Witness ==
    /\ Len(posts) = 1
    /\ posts[1].stage = "fetch"
    /\ isProcessing
    /\ statusMessage = Message("Selecciona un tipo de marcacion primero", "error")

\* the card of a type is Completed once the step is taken
CompletedNext(t) == cards'[t].classes \cap StatusClasses = {"completed"}

\* C3 as stated: when a submission that succeeded returns to Idle
\* (processQRCode ends after its reload), the card of its type is Completed.
C3_AsStated ==
    [][\A j \in 1..Len(posts) :
          (posts[j].stage = "reload" /\ Len(posts') < Len(posts))
              => CompletedNext(posts[j].type)]_vars

\* C4 as stated: a non-2xx answer of the server to the POST is what the
\* service worker hands to the page, status and body unchanged, and the
\* page then shows the error of that body.
C4_AsStated ==
    [][\A i \in 1..Len(posts) :
          (posts[i].stage = "done" /\ IsResponse(posts[i].net) /\ ~Ok(posts[i].net))
              => /\ posts[i].reply = posts[i].net
                 /\ posts' # posts => statusMessage' = Message("result.error", "error")]_vars

(***************************************************************************)
(* Claims on the service worker (SpecRouter)                               *)
(***************************************************************************)
\* C5 as stated: whatever the request, the outcome of the network and the
\* content of the cache, the strategy given to respondWith resolves with a
\* response.
C5_AsStated ==
    (rq.stage = "done" /\ rq.strategy \in Strategies) => IsResponse(rq.reply)

\* C6 as stated: a POST to the submission endpoint whose fetch fails is
\* answered with a 202 whose body carries accepted: true and pending: true,
\* and nothing is thrown.
C6_AsStated ==
    (rq.stage = "done" /\ rq.strategy = "handleOfflineMarking"
        /\ rq.net = NetworkError)
    => /\ IsResponse(rq.reply)
       /\ rq.reply.status = 202
       /\ {"accepted:true", "pending:true"} \subseteq rq.reply.body

(***************************************************************************)
(* Claims on the cache stores (SpecLifecycle)                              *)
(***************************************************************************)
\* a store of a generation older than the script of version v
Older(name, v) ==
    \/ name.kind = "legacy"
    \/ name.kind = "hispe-pulse" /\ name.v < v.cache
    \/ name.kind = "hispe-offline" /\ name.v < v.offline

\* the step in which the activation of the active worker completes
ActivationCompletes == phase = "activating" /\ phase' = "activated"

\* C13: when an activation completes the only stores that exist are the two
\* named by the identifiers of the activated script, and whenever a worker
\* is activated no store of an older generation exists, whatever fetch
\* handlers and background refreshes were under way when it was activated.
C13_OneGeneration ==
    [][/\ ActivationCompletes
           => stores' \subseteq {CACHE_NAME(version'), OFFLINE_CACHE(version')}
       /\ phase' = "activated"
           => \A name \in stores' : ~Older(name, version')]_vars

\* the second script, both identifiers bumped, is activated and has since
\* answered the attendance request from the network and stored it
C13_Witness ==
    /\ phase = "activated"
    /\ version = [cache |-> 2, offline |-> 2]
    /\ replaced = FirstVersion
    /\ stores = {CACHE_NAME(version), OFFLINE_CACHE(version)}
    /\ IsResponse(cache[TodayPath])

\* the activation that completes is one of a script whose CACHE_NAME differs
\* from the one of the script it replaced
VersionBump ==
    /\ ActivationCompletes
    /\ replaced # NoVersion
    /\ CACHE_NAME(replaced) # CACHE_NAME(version)

\* C14: when the activation after a version bump completes, the store of the
\* replaced script is deleted, the stores of the new script exist, the new
\* store holds a response for exactly the essential files and the offline
\* page is stored.
C14_VersionBump ==
    [][VersionBump =>
          /\ CACHE_NAME(replaced') \notin stores'
          /\ OFFLINE_CACHE(replaced') # OFFLINE_CACHE(version')
                 => OFFLINE_CACHE(replaced') \notin stores'
          /\ {CACHE_NAME(version'), OFFLINE_CACHE(version')} \subseteq stores'
          /\ \A p \in Paths : IsResponse(cache'[p]) <=> p \in ESSENTIAL_FILES
          /\ offlineEntry']_vars

\* the second script, CACHE_NAME bumped and OFFLINE_CACHE kept, has been
\* activated after the first one had stored the attendance response: the
\* new store holds the essential files only
C14_Witness ==
    /\ phase = "activated"
    /\ version = [cache |-> 2, offline |-> 1]
    /\ replaced = FirstVersion
    /\ stores = {CACHE_NAME(version), OFFLINE_CACHE(version)}
    /\ ~IsResponse(cache[TodayPath])
    /\ IsResponse(cache[StylePath])
    /\ offlineEntry

(***************************************************************************)
(* Claims on the records the page evaluates (Spec)                         *)
(***************************************************************************)
\* every field set in record a is set in record b
KeepsSet(a, b) ==
    \A t \in Types : Set(FieldOf(t, a)) => Set(FieldOf(t, b))

\* C18 as stated: over any sequence of loads, refreshes and submissions of
\* one day, a field that is set in a record the page has evaluated is set
\* in every record the page evaluates afterwards.
C18_AsStated ==
    [][(evaluated /\ evaluated') => KeepsSet(attendance, attendance')]_vars

\* C20: the cards an evaluation leaves are those the evaluation of the same
\* record gives on the cards as the page ships them: the result for all
\* four types depends on the record only, not on what was evaluated before
\* nor on the state of the submission flow.
C20_Idempotent ==
    evaluated => cards = updateMarcationCards(InitialCards, attendance)

\* the empty record evaluated a second time, after an accepted punch whose
\* reload was answered with the stored copy: the cards are what they were
C20_Witness ==
    /\ evaluated
    /\ posts = <<>>
    /\ statusMessage = Message("result.message", "success")
    /\ Set(serverRecord.horaentrada)
    /\ attendance = EmptyRecord
    /\ Available("Ingreso")
    /\ BlockedBy("Salida", NoEntry)

\* C19 as stated: once a cancel or a scan timeout has closed the scan, no
\* submission request is sent until a type is selected again.
C19_AsStated ==
    [][cancelled => ~Sends]_vars

(***************************************************************************)
(* Claims on the strategies (SpecRouter, SpecLifecycle)                    *)
(***************************************************************************)
\* the strategy st has looked up the request and found a stored response,
\* and goes on in this step
HitStep(st) ==
    /\ rq.stage = "match"
    /\ rq.strategy = st
    /\ IsResponse(cache[rq.req.path])
    /\ rq' # rq

\* C15: cacheFirst on a request that has a stored entry returns that entry
\* as stored, asks the network nothing (no awaited fetch, no background
\* fetch) and writes nothing to the cache.
C15_CacheFirstHit ==
    [][HitStep("cacheFirst") =>
          /\ rq' = [rq EXCEPT !.stage = "done", !.reply = cache[rq.req.path]]
          /\ rq'.net = None
          /\ bg' = bg
          /\ cache' = cache
          /\ stores' = stores]_vars

\* the style sheet answered from its stored entry, the network not asked
C15_Witness ==
    /\ rq.stage = "done"
    /\ rq.strategy = "cacheFirst"
    /\ rq.req.path = StylePath
    /\ rq.net = None
    /\ rq.reply = cache[StylePath]
    /\ IsResponse(rq.reply)

C17_AsStated ==
    [][/\ HitStep("cacheFirstWithNetworkFallback")
           => rq' = [rq EXCEPT !.stage = "done", !.reply = cache[rq.req.path]]
       /\ ~unhandled']_vars

(***************************************************************************)
(* Claims on the selection of a punch type (Spec)                          *)
(***************************************************************************)
\* a scan session starts in this step: a new Html5Qrcode instance is created
StartsScan == qrScanner' # qrScanner /\ qrScanner' # 0

\* the selected punch type is set or replaced in this step
Selects == currentMarcationType' # currentMarcationType
              /\ currentMarcationType' # Null

\* C21: a step that starts a scan session, or that sets the selected punch
\* type, does so for a type that is Available on the cards rendered last,
\* while isProcessing is unset and no submission is in flight; so the
\* selection of a Completed or Blocked type starts no scan and leaves the
\* selected type as it was.
C21_SelectAvailable ==
    [][(StartsScan \/ Selects) =>
          /\ Available(currentMarcationType')
          /\ StartsScan
          /\ ~isProcessing
          /\ InFlight = {}]_vars

\* a scan session under way for the start of the break, selected while the
\* entry card is Completed and the end of the break Blocked
C21_Witness ==
    /\ qrScanner # 0
    /\ currentMarcationType = "Inicio de Refrigerio"
    /\ Available("Inicio de Refrigerio")
    /\ Completed("Ingreso")
    /\ Blocked("Salida de Refrigerio")
    /\ ~isProcessing

(***************************************************************************)
(* Claims on the end of a submission (Spec)                                *)
(***************************************************************************)
\* the processQRCode call i, whose POST the network answered with a non-2xx
\* response or not at all, goes on after its fetch in this step
FailedSubmissionEnds(i) ==
    /\ i \in 1..Len(posts)
    /\ posts[i].stage = "done"
    /\ ~Ok(posts[i].net)
    /\ posts' # posts

ToSubmission(r) == r.method = "POST" /\ StartsWith(r.path, MarkPath)
ToCacheableApi(r) ==
    r.method = "GET" /\ \E pat \in API_CACHE_PATTERNS : StartsWith(r.path, pat)
Navigation(r) ==
    r.mode = "navigate" \/ (r.method = "GET" /\ r.accept = "text/html")

\* the fetch event of the request the worker is answering has been dispatched
Classified == rq.stage # "idle"

\* C23 as stated: every request gets the strategy of the first rule it
\* matches, in the order POST to the submission endpoint, GET to a cacheable
\* API pattern, navigation, anything else; none is left without a strategy.
C23_AsStated ==
    Classified =>
        rq.strategy =
            IF ToSubmission(rq.req) THEN "handleOfflineMarking"
            ELSE IF ToCacheableApi(rq.req) THEN "cacheFirstWithNetworkFallback"
            ELSE IF Navigation(rq.req) THEN "networkFirstWithCacheFallback"
            ELSE "cacheFirst"

\* C23 amended: a same-origin POST to the submission endpoint gets the
\* strategy of rule 1; a same-origin GET gets exactly one strategy by the
\* first rule it matches, in the order: path under the submission endpoint
\* (network only, 503 on failure), cacheable API pattern, navigation,
\* anything else that carries an Accept header (Cache-First); every other
\* request (another origin, another method, a POST elsewhere) and a GET of
\* the last kind without Accept header, on which the navigation test
\* throws, gets no strategy and is left to the browser.
C23_FirstMatch ==
    Classified =>
        LET r == rq.req
            sameGet == r.origin = "same" /\ r.method = "GET"
            underMark == StartsWith(r.path, MarkPath)
        IN  /\ (r.origin = "same" /\ ToSubmission(r))
                   => rq.strategy = "handleOfflineMarking"
            /\ (sameGet /\ underMark) => rq.strategy = "networkOnlyWithFallback"
            /\ (sameGet /\ ~underMark /\ ToCacheableApi(r))
                   => rq.strategy = "cacheFirstWithNetworkFallback"
            /\ (sameGet /\ ~underMark /\ ~ToCacheableApi(r) /\ Navigation(r))
                   => rq.strategy = "networkFirstWithCacheFallback"
            /\ (sameGet /\ ~underMark /\ ~ToCacheableApi(r) /\ ~Navigation(r))
                   => rq.strategy = IF r.accept = Null THEN "throw" ELSE "cacheFirst"
            /\ (r.origin # "same" \/ (r.method # "GET" /\ ~ToSubmission(r)))
                   => rq.strategy = "none"

\* a navigation to the attendance API is being answered by the strategy of
\* the API patterns, the rule listed before the navigation rule
C23_Witness ==
    /\ rq.stage = "done"
    /\ rq.req.path = TodayPath
    /\ rq.req.mode = "navigate"
    /\ rq.strategy = "cacheFirstWithNetworkFallback"
    /\ IsResponse(rq.reply)

(***************************************************************************)
(* Claims on what the cache holds (SpecLifecycle)                          *)
(***************************************************************************)
\* the responses the strategies build themselves
Synthesized == {CacheFirst503, Api503, NetworkOnly503, Offline202}

\* C24: every entry of the store CACHE_NAME is a response with a 2xx status
\* that came from the network, never one a strategy synthesized, whatever
\* installs, activations, requests and background refreshes came before.
C24_OnlyOkStored ==
    \A p \in Paths :
        IsResponse(cache[p]) => Ok(cache[p]) /\ cache[p] \notin Synthesized

\* the second script is active, the attendance request was not stored and
\* the server has answered it with a 500: the answer is handed on, not stored
C24_Witness ==
    /\ version.cache = 2
    /\ phase = "activated"
    /\ rq.stage = "done"
    /\ rq.strategy = "cacheFirstWithNetworkFallback"
    /\ rq.net = Response(500, ErrorBody)
    /\ rq.reply = rq.net
    /\ cache[TodayPath] = Miss
    /\ IsResponse(cache[DashboardPath])

(***************************************************************************)
(* Claims on the scan sessions (SpecTimeout, Spec)                         *)
(***************************************************************************)
\* C25 as stated: when no code is scanned and the reader is not closed,
\* every scanner instance that was started is stopped in the end: the scan
\* timeout fires and returns the flow to Idle, no scan session stays in
\* AwaitingScan forever.
C25_AsStated ==
    \A id \in 1..MaxSessions : (id \in running) ~> (id \notin running)

(***************************************************************************)
(* Claims on the termination of a submission (SpecSubmit)                  *)
(***************************************************************************)
\* C26: every request settling in the end, a submission that has set
\* isProcessing ends with isProcessing unset and the selected type cleared,
\* whatever the answer to its POST; and isProcessing is set only while a
\* processQRCode call is under way, never in Idle.
C26_SubmissionEnds ==
    /\ [](isProcessing <=> posts # <<>>)
    /\ isProcessing ~> (~isProcessing /\ currentMarcationType = Null)

\* a submission answered with a body that is no JSON has ended, after an
\* earlier one was accepted and reloaded
C26_Witness ==
    /\ Set(serverRecord.horaentrada)
    /\ Completed("Ingreso")
    /\ posts = <<>>
    /\ ~isProcessing
    /\ currentMarcationType = Null
    /\ statusMessage = Message("Error de comunicacion con el servidor", "error")
    /\ serverRecord.horaRefrigerioInicio = Null

\* the 120 s timer id fires in this step though this.scanTimeout refers to
\* another timer or to none: the timer of a session that was superseded
StaleTimeoutFires(id) ==
    /\ id \in armed
    /\ id \notin armed'
    /\ id # scanTimeout

\* C27 as stated: at most one scanner instance runs and at most one scan
\* timeout is armed at any time, and the timeout of a superseded session
\* stops no scanner when it fires.
C27_AsStated ==
    [][/\ Cardinality(running') <= 1
       /\ Cardinality(armed') <= 1
       /\ \A id \in 1..MaxSessions :
             StaleTimeoutFires(id) => running' = running]_vars

\* a background refresh ends that a refresh of the same request, started
\* after it, has overtaken
OvertakenRefreshEnds(i) ==
    /\ i \in 1..Len(bg)
    /\ bg[i].overtaken
    /\ Len(bg') < Len(bg)
    /\ bg' = RemoveAt(bg, i)

\* C28: of two overlapping background refreshes of one request, the one
\* started last decides the entry: a refresh that ends after a later-started
\* one has stored its response leaves the cache entry as that one wrote it.
C28_AsStated ==
    [][\A i \in 1..MaxOverlap :
          OvertakenRefreshEnds(i) => cache'[bg[i].path] = cache[bg[i].path]]_vars

\* checkConnection gets its response while the network is unreachable
CheckDeliversOffline ==
    /\ ~online
    /\ rq.stage = "done"
    /\ rq.req = HealthRequest
    /\ rq'.stage = "idle"

\* C29: a health check that runs while the network is unavailable sets the
\* connectivity indicator to false and makes initialization report the
\* failure, whether or not a health response is stored in the cache.
C29_AsStated ==
    [][CheckDeliversOffline =>
          /\ connectionStatus' = FALSE
          /\ statusMessage' = InitFailed]_vars

=============================================================================
